---- MODULE Spec2Model ----
(***************************************************************************)
(* A model of the thread_manager package: the ThreadManager worker pool    *)
(* (manager.py) and the three synchronization primitives ThreadBarrier,    *)
(* ThreadSemaphore and ThreadCountDownLatch (sync.py).                     *)
(*                                                                         *)
(* Every Python statement that reads or writes shared state is one step of *)
(* the thread that executes it; `with self._lock:` is an acquire step      *)
(* followed by the steps of its body, the last of which releases the lock. *)
(* Each component has its own specification (SpecPool, SpecBarrier,        *)
(* SpecSemaphore, SpecLatch); the variables of the other components stay   *)
(* at their initial values.                                                *)
(***************************************************************************)
EXTENDS Integers, Sequences, FiniteSets, TLC

\* ------------------------------------------------------------------ bounds
\* submit_task calls, each made by a thread of its own (so any two may overlap)
NumCalls == 2
\* max_workers of the ThreadPoolExecutor
NumWorkers == 1
\* threads using the barrier, the largest parties, and wait calls in all
NumBarrierThreads == 3
MaxParties == 2
MaxBarrierCalls == 4
\* threads using the semaphore, the largest initial value, operations in all
NumSemThreads == 2
MaxValue == 2
MaxSemOps == 3
\* threads using the latch, the largest initial count, count_down calls in all
NumLatchThreads == 3
MaxCount == 2
MaxCountDowns == 4

BThreads == 1..NumBarrierThreads
SThreads == 1..NumSemThreads
LThreads == 1..NumLatchThreads

Calls == 1..NumCalls
Ids == 0..(NumCalls - 1)

\* Python's None, and a stored value v, as sequences (<<>> or <<v>>)
None == <<>>
Some(v) == <<v>>

VARIABLES
  \* ---- ThreadManager
  threads,      \* self._threads: dict thread_id -> ThreadInfo
  lock,         \* self._lock: the set of threads inside `with self._lock`
  running,      \* self._running
  exShutdown,   \* self._executor._shutdown
  workQueue,    \* the executor's queue of work items (thread ids)
  futures,      \* the Future of each work item
  spc, sid, stask,     \* submit_task call c: position, thread_id, task
  wpc,                 \* work item i: position of the worker executing it
  hpc, hwait,          \* the shutdown call: position, its wait argument
  apc, aid, atimeout,  \* the wait_for_thread call: position, arguments
  \* ---- history (written, never read by the program)
  afterShut,    \* call c -> c began after shutdown had returned
  executed      \* ids whose callable has been invoked

VARIABLES
  \* ---- ThreadBarrier
  bParties,     \* self._parties
  bCount,       \* self._count
  bLock,        \* self._lock: the set of threads inside `with self._lock`
  bEvent,       \* self._event: the flag of the threading.Event
  bpc, bto, bret,  \* thread t in wait(): position, timeout given, return value
  bno,          \* history: thread t -> the number of its wait call (1, 2, ...)
  bCalls,       \* history: wait calls made so far
  bRound1Ret,   \* history: how many of the first bParties calls have returned
  bClean,       \* history: call bParties + 1 was made after all of them returned
  \* ---- ThreadSemaphore
  sInit,        \* the value the semaphore was constructed with
  sValue,       \* self._value
  sLock,        \* self._lock
  sEvent,       \* self._event
  mpc, mop, mto,   \* thread t: position, operation, timeout argument
  mret,         \* thread t: what its last operation returned or raised
  mBlockRel,    \* history: releases completed when t first found no permit
  nTrue,        \* history: _acquire calls that returned True
  nRel,         \* history: release calls completed
  rawUsed,      \* history: _acquire or release was called outside the scoped form
  sOps,         \* history: operations started
  \* ---- ThreadCountDownLatch
  lInit,        \* the count the latch was constructed with
  lCount,       \* self._count
  lLock,        \* self._lock
  lEvent,       \* self._event
  lpc, lto, lret,  \* thread t: position, timeout given, value wait_for_zero returned
  lCalls,       \* history: count_down calls made
  lDone         \* history: count_down calls completed

poolVars == <<threads, lock, running, exShutdown, workQueue, futures,
              spc, sid, stask, wpc, hpc, hwait, apc, aid, atimeout,
              afterShut, executed>>

barVars == <<bParties, bCount, bLock, bEvent, bpc, bto, bret, bno,
             bCalls, bRound1Ret, bClean>>

semVars == <<sInit, sValue, sLock, sEvent, mpc, mop, mto, mret, mBlockRel,
             nTrue, nRel, rawUsed, sOps>>

latchVars == <<lInit, lCount, lLock, lEvent, lpc, lto, lret, lCalls, lDone>>

\* the three primitives, which the pool never touches
primVars == <<barVars, semVars, latchVars>>

vars == <<poolVars, barVars, semVars, latchVars>>

\* ------------------------------------------------------------ ThreadManager

\* d[k] = v on a Python dict
Put(d, k, v) == [x \in (DOMAIN d) \cup {k} |-> IF x = k THEN v ELSE d[x]]

\* ThreadInfo(thread_id, state=IDLE, task, args), result and error None
ThreadInfo(id, task) ==
  [thread_id |-> id, state |-> "IDLE", task |-> task,
   result |-> None, error |-> None]

\* a callable: "ok" returns its argument, "fail" raises
Task(kind, arg) == [kind |-> kind, arg |-> arg]
TaskKinds == {"ok", "fail"}

NoFuture == [state |-> "NONE", result |-> None, exception |-> None, cb |-> FALSE]

PoolInit ==
  /\ threads = << >>
  /\ lock = {}
  /\ running = TRUE
  /\ exShutdown = FALSE
  /\ workQueue = << >>
  /\ futures = [i \in Ids |-> NoFuture]
  /\ spc = [c \in Calls |-> "idle"]
  /\ sid = [c \in Calls |-> 0]
  /\ stask = [c \in Calls |-> Task("ok", c)]
  /\ wpc = [i \in Ids |-> "none"]
  /\ hpc = "idle"
  /\ hwait = TRUE
  /\ apc = "idle"
  /\ aid = 0
  /\ atimeout = FALSE
  /\ afterShut = [c \in Calls |-> FALSE]
  /\ executed = {}

ReturnedIds == {sid[c] : c \in {d \in Calls : spc[d] = "returned"}}

CanAcquire_NoLock(l) == TRUE

\* threading.Lock.acquire: only a free lock is taken
CanAcquire(l) == l = {}

ExecutorRejects_Never(shut) == FALSE

\* self._executor.submit raises RuntimeError once the executor is shut down
ExecutorRejects(shut) == shut

\* thread_id = len(self._threads)
NextId(ths) == Cardinality(DOMAIN ths)

CbWrite_StoresException(ths, id, fut) ==
  IF fut.exception = None
    THEN [ths EXCEPT ![id].result = fut.result]
    ELSE [ths EXCEPT ![id].result = fut.exception, ![id].error = fut.exception]

\* _handle_task_completion, first write: result = future.result(), or error = e
CbWrite(ths, id, fut) ==
  IF fut.exception = None
    THEN [ths EXCEPT ![id].result = fut.result]
    ELSE [ths EXCEPT ![id].error = fut.exception]

CbState_AlwaysTerminated(ths, id, fut) ==
  [ths EXCEPT ![id].state = "TERMINATED"]

\* _handle_task_completion, second write: the state
CbState(ths, id, fut) ==
  [ths EXCEPT ![id].state =
     IF fut.exception = None THEN "TERMINATED" ELSE "ERROR"]

\* ---- submit_task

\* the calls are numbered in the order in which they begin
NextCall(c) == \A d \in Calls : d < c => spc[d] # "idle"

\* submit_task(task, c) is called: `with self._lock:` is entered and
\* thread_id = len(self._threads) is read. A call begins with the first thing
\* it does to shared state, taking the lock.
SubmitCall(c, kind) ==
  /\ spc[c] = "idle"
  /\ NextCall(c)
  /\ CanAcquire(lock)
  /\ lock' = lock \cup {c}
  /\ sid' = [sid EXCEPT ![c] = NextId(threads)]
  /\ stask' = [stask EXCEPT ![c] = Task(kind, c)]
  /\ afterShut' = [afterShut EXCEPT ![c] = (hpc = "done")]
  /\ spc' = [spc EXCEPT ![c] = "store"]
  /\ UNCHANGED <<primVars, threads, running, exShutdown, workQueue, futures,
                 wpc, hpc, hwait, apc, aid, atimeout, executed>>

\* self._threads[thread_id] = thread_info, and the lock is released
SubmitStore(c) ==
  /\ spc[c] = "store"
  /\ threads' = Put(threads, sid[c], ThreadInfo(sid[c], stask[c]))
  /\ lock' = lock \ {c}
  /\ spc' = [spc EXCEPT ![c] = "exec"]
  /\ UNCHANGED <<primVars, running, exShutdown, workQueue, futures, sid, stask,
                 wpc, hpc, hwait, apc, aid, atimeout, afterShut, executed>>

\* future = self._executor.submit(self._execute_task, thread_id)
SubmitExecutor(c) ==
  /\ spc[c] = "exec"
  /\ IF ExecutorRejects(exShutdown)
       THEN /\ spc' = [spc EXCEPT ![c] = "raised"]
            /\ UNCHANGED <<workQueue, futures>>
       ELSE /\ workQueue' = Append(workQueue, sid[c])
            /\ futures' = [futures EXCEPT ![sid[c]].state = "PENDING"]
            /\ spc' = [spc EXCEPT ![c] = "addcb"]
  /\ UNCHANGED <<primVars, threads, lock, running, exShutdown, sid, stask,
                 wpc, hpc, hwait, apc, aid, atimeout, afterShut, executed>>

\* future.add_done_callback: a finished future calls the callback at once, in
\* the submitting thread; otherwise the callback is registered
SubmitAddCallback(c) ==
  /\ spc[c] = "addcb"
  /\ IF futures[sid[c]].state = "FINISHED"
       THEN /\ spc' = [spc EXCEPT ![c] = "cb_write"]
            /\ UNCHANGED futures
       ELSE /\ futures' = [futures EXCEPT ![sid[c]].cb = TRUE]
            /\ spc' = [spc EXCEPT ![c] = "returned"]
  /\ UNCHANGED <<primVars, threads, lock, running, exShutdown, workQueue,
                 sid, stask, wpc, hpc, hwait, apc, aid, atimeout,
                 afterShut, executed>>

SubmitCbWrite(c) ==
  /\ spc[c] = "cb_write"
  /\ threads' = CbWrite(threads, sid[c], futures[sid[c]])
  /\ spc' = [spc EXCEPT ![c] = "cb_state"]
  /\ UNCHANGED <<primVars, lock, running, exShutdown, workQueue, futures,
                 sid, stask, wpc, hpc, hwait, apc, aid, atimeout,
                 afterShut, executed>>

SubmitCbState(c) ==
  /\ spc[c] = "cb_state"
  /\ threads' = CbState(threads, sid[c], futures[sid[c]])
  /\ spc' = [spc EXCEPT ![c] = "returned"]
  /\ UNCHANGED <<primVars, lock, running, exShutdown, workQueue, futures,
                 sid, stask, wpc, hpc, hwait, apc, aid, atimeout,
                 afterShut, executed>>

\* ---- the executor's workers: _execute_task, then the future's callbacks.
\* The workers are interchangeable, so the model keeps, per work item, the
\* position of the worker that executes it ("none": no worker does).

\* the work items that occupy a worker
Busy == {i \in Ids : wpc[i] # "none"}

\* one of the max_workers workers is idle
FreeWorker(busy) == Cardinality(busy) < NumWorkers

\* an idle worker takes the oldest work item of the queue
WorkerTake(i) ==
  /\ workQueue # << >>
  /\ i = Head(workQueue)
  /\ wpc[i] = "none"
  /\ FreeWorker(Busy)
  /\ workQueue' = Tail(workQueue)
  /\ futures' = [futures EXCEPT ![i].state = "RUNNING"]
  /\ wpc' = [wpc EXCEPT ![i] = "set_running"]
  /\ UNCHANGED <<primVars, threads, lock, running, exShutdown, spc, sid, stask,
                 hpc, hwait, apc, aid, atimeout, afterShut, executed>>

\* thread_info.state = ThreadState.RUNNING
WorkerSetRunning(i) ==
  /\ wpc[i] = "set_running"
  /\ threads' = [threads EXCEPT ![i].state = "RUNNING"]
  /\ wpc' = [wpc EXCEPT ![i] = "call"]
  /\ UNCHANGED <<primVars, lock, running, exShutdown, workQueue, futures,
                 spc, sid, stask, hpc, hwait, apc, aid, atimeout,
                 afterShut, executed>>

\* once the future is finished the worker runs the callback, if it is
\* registered, and is idle again otherwise
AfterFinish(fut) == IF fut.cb THEN "cb_write" ELSE "none"

\* the callable runs to its end: it returns (and the future gets the result)
\* or it raises
WorkerCall(i) ==
  /\ wpc[i] = "call"
  /\ executed' = executed \cup {i}
  /\ IF threads[i].task.kind = "ok"
       THEN /\ futures' = [futures EXCEPT ![i].state = "FINISHED",
                             ![i].result = Some(threads[i].task.arg)]
            /\ wpc' = [wpc EXCEPT ![i] = AfterFinish(futures[i])]
       ELSE /\ wpc' = [wpc EXCEPT ![i] = "exc_error"]
            /\ UNCHANGED futures
  /\ UNCHANGED <<primVars, threads, lock, running, exShutdown, workQueue,
                 spc, sid, stask, hpc, hwait, apc, aid, atimeout, afterShut>>

\* except: thread_info.error = e
WorkerExcError(i) ==
  /\ wpc[i] = "exc_error"
  /\ threads' = [threads EXCEPT ![i].error = Some("exc")]
  /\ wpc' = [wpc EXCEPT ![i] = "exc_state"]
  /\ UNCHANGED <<primVars, lock, running, exShutdown, workQueue, futures,
                 spc, sid, stask, hpc, hwait, apc, aid, atimeout,
                 afterShut, executed>>

\* except: thread_info.state = ThreadState.ERROR
WorkerExcState(i) ==
  /\ wpc[i] = "exc_state"
  /\ threads' = [threads EXCEPT ![i].state = "ERROR"]
  /\ wpc' = [wpc EXCEPT ![i] = "set_exception"]
  /\ UNCHANGED <<primVars, lock, running, exShutdown, workQueue, futures,
                 spc, sid, stask, hpc, hwait, apc, aid, atimeout,
                 afterShut, executed>>

AfterRaise_WorkerDies(fut) == "dead"

\* the executor catches the exception that leaves _execute_task and stores it
\* in the future; the worker goes on as after a normal return
AfterRaise(fut) == AfterFinish(fut)

\* `raise` leaves _execute_task: the future gets the exception
WorkerSetException(i) ==
  /\ wpc[i] = "set_exception"
  /\ futures' = [futures EXCEPT ![i].state = "FINISHED",
                                ![i].exception = Some("exc")]
  /\ wpc' = [wpc EXCEPT ![i] = AfterRaise(futures[i])]
  /\ UNCHANGED <<primVars, threads, lock, running, exShutdown, workQueue,
                 spc, sid, stask, hpc, hwait, apc, aid, atimeout,
                 afterShut, executed>>

WorkerCbWrite(i) ==
  /\ wpc[i] = "cb_write"
  /\ threads' = CbWrite(threads, i, futures[i])
  /\ wpc' = [wpc EXCEPT ![i] = "cb_state"]
  /\ UNCHANGED <<primVars, lock, running, exShutdown, workQueue, futures,
                 spc, sid, stask, hpc, hwait, apc, aid, atimeout,
                 afterShut, executed>>

WorkerCbState(i) ==
  /\ wpc[i] = "cb_state"
  /\ threads' = CbState(threads, i, futures[i])
  /\ wpc' = [wpc EXCEPT ![i] = "none"]
  /\ UNCHANGED <<primVars, lock, running, exShutdown, workQueue, futures,
                 spc, sid, stask, hpc, hwait, apc, aid, atimeout,
                 afterShut, executed>>

\* ---- shutdown

\* self._running = False
ShutdownCall(wt) ==
  /\ hpc = "idle"
  /\ running' = FALSE
  /\ hwait' = wt
  /\ hpc' = "executor"
  /\ UNCHANGED <<primVars, threads, lock, exShutdown, workQueue, futures,
                 spc, sid, stask, wpc, apc, aid, atimeout, afterShut, executed>>

AfterClose_NoJoin(wt) == "done"

\* what self._executor.shutdown(wait) does after closing the executor
AfterClose(wt) == IF wt THEN "join" ELSE "done"

QueueAfterShutdown_Cancel(q, wt) == IF wt THEN q ELSE << >>

\* shutdown is called without cancel_futures: the queued work items stay
QueueAfterShutdown(q, wt) == q

\* self._executor.shutdown(wait=wait): no new work item is accepted
ShutdownExecutor ==
  /\ hpc = "executor"
  /\ exShutdown' = TRUE
  /\ workQueue' = QueueAfterShutdown(workQueue, hwait)
  /\ hpc' = AfterClose(hwait)
  /\ UNCHANGED <<primVars, threads, lock, running, futures,
                 spc, sid, stask, wpc, hwait, apc, aid, atimeout,
                 afterShut, executed>>

\* wait=True joins the workers: each leaves once the executor is shut down,
\* the queue is drained and its own work item (callbacks included) is finished
ShutdownJoin ==
  /\ hpc = "join"
  /\ workQueue = << >>
  /\ Busy = {}
  /\ hpc' = "done"
  /\ UNCHANGED <<primVars, threads, lock, running, exShutdown, workQueue,
                 futures, spc, sid, stask, wpc, hwait, apc, aid, atimeout,
                 afterShut, executed>>

\* ---- wait_for_thread

\* wait_for_thread(i, timeout): ValueError for an unknown thread_id
AwaitCall(i, to) ==
  /\ apc = "idle"
  /\ aid' = i
  /\ atimeout' = to
  /\ apc' = IF i \in DOMAIN threads THEN "poll" ELSE "value_error"
  /\ UNCHANGED <<primVars, threads, lock, running, exShutdown, workQueue,
                 futures, spc, sid, stask, wpc, hpc, hwait, afterShut, executed>>

\* the loop condition `state == RUNNING`
StillWaiting(info) == info.state = "RUNNING"

\* the loop is left (or never entered): return True
AwaitReturnTrue ==
  /\ apc = "poll"
  /\ ~StillWaiting(threads[aid])
  /\ apc' = "ret_true"
  /\ UNCHANGED <<primVars, threads, lock, running, exShutdown, workQueue,
                 futures, spc, sid, stask, wpc, hpc, hwait, aid, atimeout,
                 afterShut, executed>>

\* in the loop, the timeout has elapsed: return False
AwaitTimeout ==
  /\ apc = "poll"
  /\ StillWaiting(threads[aid])
  /\ atimeout
  /\ apc' = "ret_false"
  /\ UNCHANGED <<primVars, threads, lock, running, exShutdown, workQueue,
                 futures, spc, sid, stask, wpc, hpc, hwait, aid, atimeout,
                 afterShut, executed>>

SubmitStep ==
  \/ \E c \in Calls, k \in TaskKinds : SubmitCall(c, k)
  \/ \E c \in Calls : SubmitStore(c)
  \/ \E c \in Calls : SubmitExecutor(c)
  \/ \E c \in Calls : SubmitAddCallback(c)
  \/ \E c \in Calls : SubmitCbWrite(c)
  \/ \E c \in Calls : SubmitCbState(c)

WorkerStep ==
  \/ \E i \in Ids : WorkerTake(i)
  \/ \E i \in Ids : WorkerSetRunning(i)
  \/ \E i \in Ids : WorkerCall(i)
  \/ \E i \in Ids : WorkerExcError(i)
  \/ \E i \in Ids : WorkerExcState(i)
  \/ \E i \in Ids : WorkerSetException(i)
  \/ \E i \in Ids : WorkerCbWrite(i)
  \/ \E i \in Ids : WorkerCbState(i)

ShutdownStep ==
  \/ \E wt \in BOOLEAN : ShutdownCall(wt)
  \/ ShutdownExecutor
  \/ ShutdownJoin

AwaitStep ==
  \/ \E i \in Ids, to \in BOOLEAN : AwaitCall(i, to)
  \/ AwaitReturnTrue
  \/ AwaitTimeout

\* ------------------------------------------------------------ ThreadBarrier

\* ThreadBarrier(parties): nobody has called wait yet
BarrierInit(p) ==
  /\ bParties = p
  /\ bCount = p
  /\ bLock = {}
  /\ bEvent = FALSE
  /\ bpc = [t \in BThreads |-> "idle"]
  /\ bto = [t \in BThreads |-> FALSE]
  /\ bret = [t \in BThreads |-> None]
  /\ bno = [t \in BThreads |-> 0]
  /\ bCalls = 0
  /\ bRound1Ret = 0
  /\ bClean = FALSE

\* a thread calls wait(timeout): to says whether a timeout is given
BarrierCall(t, to) ==
  /\ bpc[t] = "idle"
  /\ bCalls < MaxBarrierCalls
  /\ bpc' = [bpc EXCEPT ![t] = "lock"]
  /\ bto' = [bto EXCEPT ![t] = to]
  /\ bret' = [bret EXCEPT ![t] = None]
  /\ bno' = [bno EXCEPT ![t] = bCalls + 1]
  /\ bCalls' = bCalls + 1
  /\ bClean' = IF bCalls = bParties THEN (bRound1Ret = bParties) ELSE bClean
  /\ UNCHANGED <<poolVars, semVars, latchVars,
                 bParties, bCount, bLock, bEvent, bRound1Ret>>

BarrierAcquire(t) ==
  /\ bpc[t] = "lock"
  /\ CanAcquire(bLock)
  /\ bLock' = bLock \cup {t}
  /\ bpc' = [bpc EXCEPT ![t] = "decrement"]
  /\ UNCHANGED <<poolVars, semVars, latchVars,
                 bParties, bCount, bEvent, bto, bret, bno,
                 bCalls, bRound1Ret, bClean>>

BarrierComplete_Early(n) == n <= 1

BarrierComplete_Late(n) == n < 0

\* `if self._count == 0`: this call completes the round
BarrierComplete(n) == n = 0

\* self._count -= 1 and the test of it; a call that does not complete the round
\* leaves the lock and goes on to self._event.wait
BarrierDecrement(t) ==
  /\ bpc[t] = "decrement"
  /\ bCount' = bCount - 1
  /\ IF BarrierComplete(bCount - 1)
       THEN /\ bpc' = [bpc EXCEPT ![t] = "set"]
            /\ UNCHANGED bLock
       ELSE /\ bpc' = [bpc EXCEPT ![t] = "wait"]
            /\ bLock' = bLock \ {t}
  /\ UNCHANGED <<poolVars, semVars, latchVars,
                 bParties, bEvent, bto, bret, bno, bCalls, bRound1Ret, bClean>>

\* self._event.set()
BarrierSet(t) ==
  /\ bpc[t] = "set"
  /\ bEvent' = TRUE
  /\ bpc' = [bpc EXCEPT ![t] = "reset"]
  /\ UNCHANGED <<poolVars, semVars, latchVars,
                 bParties, bCount, bLock, bto, bret, bno,
                 bCalls, bRound1Ret, bClean>>

\* the history of a return of thread t
BarrierReturned(t) ==
  bRound1Ret' = IF bno[t] <= bParties THEN bRound1Ret + 1 ELSE bRound1Ret

\* self._count = self._parties; return True (the lock is released)
BarrierReset(t) ==
  /\ bpc[t] = "reset"
  /\ bCount' = bParties
  /\ bLock' = bLock \ {t}
  /\ bret' = [bret EXCEPT ![t] = Some(TRUE)]
  /\ bpc' = [bpc EXCEPT ![t] = "idle"]
  /\ BarrierReturned(t)
  /\ UNCHANGED <<poolVars, semVars, latchVars,
                 bParties, bEvent, bto, bno, bCalls, bClean>>

\* self._event.wait returns True once the flag is set
BarrierWake(t) ==
  /\ bpc[t] = "wait"
  /\ bEvent
  /\ bret' = [bret EXCEPT ![t] = Some(TRUE)]
  /\ bpc' = [bpc EXCEPT ![t] = "idle"]
  /\ BarrierReturned(t)
  /\ UNCHANGED <<poolVars, semVars, latchVars,
                 bParties, bCount, bLock, bEvent, bto, bno, bCalls, bClean>>

\* self._event.wait(timeout) returns False when the timeout elapses first
BarrierTimeout(t) ==
  /\ bpc[t] = "wait"
  /\ ~bEvent
  /\ bto[t]
  /\ bret' = [bret EXCEPT ![t] = Some(FALSE)]
  /\ bpc' = [bpc EXCEPT ![t] = "idle"]
  /\ BarrierReturned(t)
  /\ UNCHANGED <<poolVars, semVars, latchVars,
                 bParties, bCount, bLock, bEvent, bto, bno, bCalls, bClean>>

BarrierNext ==
  \/ \E t \in BThreads, to \in BOOLEAN : BarrierCall(t, to)
  \/ \E t \in BThreads : BarrierAcquire(t)
  \/ \E t \in BThreads : BarrierDecrement(t)
  \/ \E t \in BThreads : BarrierSet(t)
  \/ \E t \in BThreads : BarrierReset(t)
  \/ \E t \in BThreads : BarrierWake(t)
  \/ \E t \in BThreads : BarrierTimeout(t)

\* ---------------------------------------------------------- ThreadSemaphore

\* the timeout argument: omitted (None), 0, or a positive number of seconds
Timeouts == {"none", "zero", "positive"}

\* `if timeout and ...`: None and 0 are both false
Truthy(to) == to = "positive"

\* ThreadSemaphore(value)
SemInit(v) ==
  /\ sInit = v
  /\ sValue = v
  /\ sLock = {}
  /\ sEvent = FALSE
  /\ mpc = [t \in SThreads |-> "idle"]
  /\ mop = [t \in SThreads |-> "none"]
  /\ mto = [t \in SThreads |-> "none"]
  /\ mret = [t \in SThreads |-> "none"]
  /\ mBlockRel = [t \in SThreads |-> None]
  /\ nTrue = 0
  /\ nRel = 0
  /\ rawUsed = FALSE
  /\ sOps = 0

\* a thread calls _acquire(timeout) ("acquire"), release() ("release") or
\* enters `with semaphore.acquire(timeout):` ("scoped")
SemCall(t, op, to) ==
  /\ mpc[t] = "idle"
  /\ sOps < MaxSemOps
  /\ op = "release" => to = "none"
  /\ mpc' = [mpc EXCEPT ![t] = IF op = "release" THEN "r_lock" ELSE "lock1"]
  /\ mop' = [mop EXCEPT ![t] = op]
  /\ mto' = [mto EXCEPT ![t] = to]
  /\ mret' = [mret EXCEPT ![t] = "none"]
  /\ mBlockRel' = [mBlockRel EXCEPT ![t] = None]
  /\ rawUsed' = (rawUsed \/ op # "scoped")
  /\ sOps' = sOps + 1
  /\ UNCHANGED <<poolVars, barVars, latchVars,
                 sInit, sValue, sLock, sEvent, nTrue, nRel>>

HasPermit_OffByOne(v) == v >= 0

HasPermit_Never(v) == FALSE

\* `if self._value > 0`
HasPermit(v) == v > 0

AfterAcquire_ReleaseAlways(op, ok) ==
  IF op = "scoped" THEN (IF ok THEN "inside" ELSE "r_lock") ELSE "idle"

\* where _acquire returns to: its caller, or the scoped form, which enters the
\* body on True and raises TimeoutError on False
AfterAcquire(op, ok) ==
  IF op = "scoped" THEN (IF ok THEN "inside" ELSE "idle") ELSE "idle"

\* the arguments of an operation are gone once it has ended
Ended(pc, arg) == IF pc = "idle" THEN "none" ELSE arg

\* what the operation has yielded when _acquire returns
AcquireOutcome(op, ok) ==
  IF op = "scoped"
    THEN (IF ok THEN "none" ELSE "TimeoutError")
    ELSE (IF ok THEN "True" ELSE "False")

\* first attempt: `with self._lock:`
SemLock1(t) ==
  /\ mpc[t] = "lock1"
  /\ CanAcquire(sLock)
  /\ sLock' = sLock \cup {t}
  /\ mpc' = [mpc EXCEPT ![t] = "test1"]
  /\ UNCHANGED <<poolVars, barVars, latchVars,
                 sInit, sValue, sEvent, mop, mto, mret, mBlockRel,
                 nTrue, nRel, rawUsed, sOps>>

\* the test of self._value; without a permit the lock is left and the polling
\* loop begins
SemTest1(t) ==
  /\ mpc[t] = "test1"
  /\ IF HasPermit(sValue)
       THEN /\ mpc' = [mpc EXCEPT ![t] = "dec1"]
            /\ UNCHANGED <<sLock, mBlockRel>>
       ELSE /\ mpc' = [mpc EXCEPT ![t] = "loop"]
            /\ sLock' = sLock \ {t}
            /\ mBlockRel' = [mBlockRel EXCEPT ![t] = Some(nRel)]
  /\ UNCHANGED <<poolVars, barVars, latchVars,
                 sInit, sValue, sEvent, mop, mto, mret,
                 nTrue, nRel, rawUsed, sOps>>

\* self._value -= 1; return True
SemDec1(t) ==
  /\ mpc[t] = "dec1"
  /\ sValue' = sValue - 1
  /\ sLock' = sLock \ {t}
  /\ nTrue' = nTrue + 1
  /\ mpc' = [mpc EXCEPT ![t] = AfterAcquire(mop[t], TRUE)]
  /\ mret' = [mret EXCEPT ![t] = AcquireOutcome(mop[t], TRUE)]
  /\ mop' = [mop EXCEPT ![t] = Ended(AfterAcquire(mop[t], TRUE), @)]
  /\ mto' = [mto EXCEPT ![t] = Ended(AfterAcquire(mop[t], TRUE), @)]
  /\ UNCHANGED <<poolVars, barVars, latchVars,
                 sInit, sEvent, mBlockRel, nRel, rawUsed, sOps>>

\* head of the loop: a truthy timeout that has elapsed returns False
SemLoopTimeout(t) ==
  /\ mpc[t] = "loop"
  /\ Truthy(mto[t])
  /\ mpc' = [mpc EXCEPT ![t] = AfterAcquire(mop[t], FALSE)]
  /\ mret' = [mret EXCEPT ![t] = AcquireOutcome(mop[t], FALSE)]
  /\ mop' = [mop EXCEPT ![t] = Ended(AfterAcquire(mop[t], FALSE), @)]
  /\ mto' = [mto EXCEPT ![t] = Ended(AfterAcquire(mop[t], FALSE), @)]
  /\ UNCHANGED <<poolVars, barVars, latchVars,
                 sInit, sValue, sLock, sEvent, mBlockRel,
                 nTrue, nRel, rawUsed, sOps>>

\* in the loop: `with self._lock:`
SemLock2(t) ==
  /\ mpc[t] = "loop"
  /\ CanAcquire(sLock)
  /\ sLock' = sLock \cup {t}
  /\ mpc' = [mpc EXCEPT ![t] = "test2"]
  /\ UNCHANGED <<poolVars, barVars, latchVars,
                 sInit, sValue, sEvent, mop, mto, mret, mBlockRel,
                 nTrue, nRel, rawUsed, sOps>>

\* the test in the loop; without a permit: time.sleep(0.1) and round again
SemTest2(t) ==
  /\ mpc[t] = "test2"
  /\ IF HasPermit(sValue)
       THEN /\ mpc' = [mpc EXCEPT ![t] = "dec2"]
            /\ UNCHANGED sLock
       ELSE /\ mpc' = [mpc EXCEPT ![t] = "loop"]
            /\ sLock' = sLock \ {t}
  /\ UNCHANGED <<poolVars, barVars, latchVars,
                 sInit, sValue, sEvent, mop, mto, mret, mBlockRel,
                 nTrue, nRel, rawUsed, sOps>>

SemDec2(t) ==
  /\ mpc[t] = "dec2"
  /\ sValue' = sValue - 1
  /\ sLock' = sLock \ {t}
  /\ nTrue' = nTrue + 1
  /\ mpc' = [mpc EXCEPT ![t] = AfterAcquire(mop[t], TRUE)]
  /\ mret' = [mret EXCEPT ![t] = AcquireOutcome(mop[t], TRUE)]
  /\ mop' = [mop EXCEPT ![t] = Ended(AfterAcquire(mop[t], TRUE), @)]
  /\ mto' = [mto EXCEPT ![t] = Ended(AfterAcquire(mop[t], TRUE), @)]
  /\ UNCHANGED <<poolVars, barVars, latchVars,
                 sInit, sEvent, mBlockRel, nRel, rawUsed, sOps>>

AfterBody_NoFinally(raises) == IF raises THEN "idle" ELSE "r_lock"

\* try: yield / finally: self.release() -- release is called however the
\* body ends
AfterBody(raises) == "r_lock"

\* the body of the with statement ends, normally or by raising; `finally`
\* calls release either way
SemBodyEnd(t, raises) ==
  /\ mpc[t] = "inside"
  /\ mpc' = [mpc EXCEPT ![t] = AfterBody(raises)]
  /\ mret' = [mret EXCEPT ![t] = IF raises THEN "raised" ELSE "exited"]
  /\ UNCHANGED <<poolVars, barVars, latchVars,
                 sInit, sValue, sLock, sEvent, mop, mto, mBlockRel,
                 nTrue, nRel, rawUsed, sOps>>

\* release: `with self._lock:`
SemReleaseLock(t) ==
  /\ mpc[t] = "r_lock"
  /\ CanAcquire(sLock)
  /\ sLock' = sLock \cup {t}
  /\ mpc' = [mpc EXCEPT ![t] = "r_body"]
  /\ UNCHANGED <<poolVars, barVars, latchVars,
                 sInit, sValue, sEvent, mop, mto, mret, mBlockRel,
                 nTrue, nRel, rawUsed, sOps>>

ReleasedValue_Capped(v, init) == IF v < init THEN v + 1 ELSE v

\* self._value += 1, whatever value the semaphore was constructed with
ReleasedValue(v, init) == v + 1

\* self._value += 1; self._event.set()
SemReleaseBody(t) ==
  /\ mpc[t] = "r_body"
  /\ sValue' = ReleasedValue(sValue, sInit)
  /\ sEvent' = TRUE
  /\ sLock' = sLock \ {t}
  /\ nRel' = nRel + 1
  /\ mpc' = [mpc EXCEPT ![t] = "idle"]
  /\ mop' = [mop EXCEPT ![t] = "none"]
  /\ mto' = [mto EXCEPT ![t] = "none"]
  /\ UNCHANGED <<poolVars, barVars, latchVars,
                 sInit, mret, mBlockRel, nTrue, rawUsed, sOps>>

SemNext ==
  \/ \E t \in SThreads, op \in {"acquire", "release", "scoped"}, to \in Timeouts :
       SemCall(t, op, to)
  \/ \E t \in SThreads : SemLock1(t)
  \/ \E t \in SThreads : SemTest1(t)
  \/ \E t \in SThreads : SemDec1(t)
  \/ \E t \in SThreads : SemLoopTimeout(t)
  \/ \E t \in SThreads : SemLock2(t)
  \/ \E t \in SThreads : SemTest2(t)
  \/ \E t \in SThreads : SemDec2(t)
  \/ \E t \in SThreads, raises \in BOOLEAN : SemBodyEnd(t, raises)
  \/ \E t \in SThreads : SemReleaseLock(t)
  \/ \E t \in SThreads : SemReleaseBody(t)

\* ----------------------------------------------------- ThreadCountDownLatch

\* ThreadCountDownLatch(count)
LatchInit(k) ==
  /\ lInit = k
  /\ lCount = k
  /\ lLock = {}
  /\ lEvent = FALSE
  /\ lpc = [t \in LThreads |-> "idle"]
  /\ lto = [t \in LThreads |-> FALSE]
  /\ lret = [t \in LThreads |-> None]
  /\ lCalls = 0
  /\ lDone = 0

\* a thread calls count_down()
CountDownCall(t) ==
  /\ lpc[t] = "idle"
  /\ lCalls < MaxCountDowns
  /\ lCalls' = lCalls + 1
  /\ lpc' = [lpc EXCEPT ![t] = "lock"]
  /\ lret' = [lret EXCEPT ![t] = None]
  /\ UNCHANGED <<poolVars, barVars, semVars,
                 lInit, lCount, lLock, lEvent, lto, lDone>>

CountDownAcquire(t) ==
  /\ lpc[t] = "lock"
  /\ CanAcquire(lLock)
  /\ lLock' = lLock \cup {t}
  /\ lpc' = [lpc EXCEPT ![t] = "decrement"]
  /\ UNCHANGED <<poolVars, barVars, semVars,
                 lInit, lCount, lEvent, lto, lret, lCalls, lDone>>

CanCountDown_Always(n) == TRUE

\* `if self._count > 0`
CanCountDown(n) == n > 0

\* `if self._count == 0` after the decrement
LatchOpens(n) == n = 0

\* self._count -= 1 while it is positive; the call ends here (releasing the
\* lock) unless it has brought the count to 0
CountDownDecrement(t) ==
  /\ lpc[t] = "decrement"
  /\ IF CanCountDown(lCount)
       THEN /\ lCount' = lCount - 1
            /\ IF LatchOpens(lCount - 1)
                 THEN /\ lpc' = [lpc EXCEPT ![t] = "set"]
                      /\ UNCHANGED <<lLock, lDone>>
                 ELSE /\ lpc' = [lpc EXCEPT ![t] = "idle"]
                      /\ lLock' = lLock \ {t}
                      /\ lDone' = lDone + 1
       ELSE /\ lpc' = [lpc EXCEPT ![t] = "idle"]
            /\ lLock' = lLock \ {t}
            /\ lDone' = lDone + 1
            /\ UNCHANGED lCount
  /\ UNCHANGED <<poolVars, barVars, semVars,
                 lInit, lEvent, lto, lret, lCalls>>

\* self._event.set(), and the call ends
CountDownSet(t) ==
  /\ lpc[t] = "set"
  /\ lEvent' = TRUE
  /\ lLock' = lLock \ {t}
  /\ lDone' = lDone + 1
  /\ lpc' = [lpc EXCEPT ![t] = "idle"]
  /\ UNCHANGED <<poolVars, barVars, semVars,
                 lInit, lCount, lto, lret, lCalls>>

\* a thread calls wait_for_zero(timeout): to says whether a timeout is given
LatchWaitCall(t, to) ==
  /\ lpc[t] = "idle"
  /\ lpc' = [lpc EXCEPT ![t] = "wait"]
  /\ lto' = [lto EXCEPT ![t] = to]
  /\ lret' = [lret EXCEPT ![t] = None]
  /\ UNCHANGED <<poolVars, barVars, semVars,
                 lInit, lCount, lLock, lEvent, lCalls, lDone>>

\* self._event.wait returns True once the flag is set
LatchWake(t) ==
  /\ lpc[t] = "wait"
  /\ lEvent
  /\ lret' = [lret EXCEPT ![t] = Some(TRUE)]
  /\ lpc' = [lpc EXCEPT ![t] = "idle"]
  /\ UNCHANGED <<poolVars, barVars, semVars,
                 lInit, lCount, lLock, lEvent, lto, lCalls, lDone>>

\* self._event.wait(timeout) returns False when the timeout elapses first
LatchTimeout(t) ==
  /\ lpc[t] = "wait"
  /\ ~lEvent
  /\ lto[t]
  /\ lret' = [lret EXCEPT ![t] = Some(FALSE)]
  /\ lpc' = [lpc EXCEPT ![t] = "idle"]
  /\ UNCHANGED <<poolVars, barVars, semVars,
                 lInit, lCount, lLock, lEvent, lto, lCalls, lDone>>

LatchNext ==
  \/ \E t \in LThreads : CountDownCall(t)
  \/ \E t \in LThreads : CountDownAcquire(t)
  \/ \E t \in LThreads : CountDownDecrement(t)
  \/ \E t \in LThreads : CountDownSet(t)
  \/ \E t \in LThreads, to \in BOOLEAN : LatchWaitCall(t, to)
  \/ \E t \in LThreads : LatchWake(t)
  \/ \E t \in LThreads : LatchTimeout(t)

\* ----------------------------------------------------------- specifications

\* a primitive nobody uses
BarrierUnused == BarrierInit(1)
SemUnused == SemInit(1)
LatchUnused == LatchInit(1)

\* submit_task, the workers and shutdown
PoolNext == SubmitStep \/ WorkerStep \/ ShutdownStep

\* the pool in use, the primitives untouched
InitPool == PoolInit /\ BarrierUnused /\ SemUnused /\ LatchUnused

SpecPool == InitPool /\ [][PoolNext]_vars

\* the same with a caller of wait_for_thread, which only reads the registry
PoolAwaitNext == SubmitStep \/ WorkerStep \/ ShutdownStep \/ AwaitStep

SpecPoolAwait == InitPool /\ [][PoolAwaitNext]_vars

\* the steps a submitting thread takes by itself once submit_task was called
SubmitProgress ==
  \E c \in Calls :
    \/ SubmitStore(c) \/ SubmitExecutor(c) \/ SubmitAddCallback(c)
    \/ SubmitCbWrite(c) \/ SubmitCbState(c)

\* the steps of a shutdown call once it was made
ShutdownProgress == ShutdownExecutor \/ ShutdownJoin

\* the pool with threads that are scheduled: the workers, the submitting
\* threads and the thread in shutdown keep running (callables terminate: a
\* call is one step); nobody is obliged to call submit_task or shutdown
PoolFairness ==
  /\ WF_vars(WorkerStep)
  /\ WF_vars(SubmitProgress)
  /\ WF_vars(ShutdownProgress)

SpecPoolLive == InitPool /\ [][PoolNext]_vars /\ PoolFairness

\* a barrier of 1..MaxParties parties
InitBarrier ==
  /\ PoolInit /\ SemUnused /\ LatchUnused
  /\ \E p \in 1..MaxParties : BarrierInit(p)

SpecBarrier == InitBarrier /\ [][BarrierNext]_vars

\* a semaphore of initial value 0..MaxValue
InitSemaphore ==
  /\ PoolInit /\ BarrierUnused /\ LatchUnused
  /\ \E v \in 0..MaxValue : SemInit(v)

SpecSemaphore == InitSemaphore /\ [][SemNext]_vars

\* the steps thread t takes by itself inside an operation on the semaphore
SemProgress(t) ==
  \/ SemLock1(t) \/ SemTest1(t) \/ SemDec1(t)
  \/ SemLock2(t) \/ SemTest2(t) \/ SemDec2(t)
  \/ SemReleaseLock(t) \/ SemReleaseBody(t)

\* the threads are scheduled, and time passes: a polling _acquire is at the
\* head of its loop again and again, so a truthy timeout that is tested there
\* does elapse at one of these tests. Nobody is obliged to call an operation
\* or to leave the body of a scoped section.
SemFairness ==
  \A t \in SThreads : WF_vars(SemProgress(t)) /\ SF_vars(SemLoopTimeout(t))

SpecSemaphoreLive == InitSemaphore /\ [][SemNext]_vars /\ SemFairness

\* a latch of initial count 0..MaxCount
InitLatch ==
  /\ PoolInit /\ BarrierUnused /\ SemUnused
  /\ \E k \in 0..MaxCount : LatchInit(k)

SpecLatch == InitLatch /\ [][LatchNext]_vars

\* ------------------------------------------------------- claims on the pool

ReturnedCalls == {c \in Calls : spc[c] = "returned"}

\* C1: the submit_task calls that returned hold pairwise distinct ids; when no
\* call is in progress and none has failed (as on an open pool) the ids
\* returned are exactly 0..N-1 for the N calls; and a call that reads its id
\* after another call has returned gets a larger id than that call (so also a
\* call that starts after the other returned), an id never changing afterwards.
C1_DistinctIds ==
  /\ \A c, d \in ReturnedCalls : c # d => sid[c] # sid[d]
  /\ (\A c \in Calls : spc[c] \in {"idle", "returned"})
       => ReturnedIds = 0..(Cardinality(ReturnedCalls) - 1)

C1_OrderStep ==
  \A c \in Calls :
    /\ (spc[c] = "idle" /\ spc'[c] = "store")
         => \A d \in ReturnedCalls : sid[d] < sid'[c]
    /\ spc[c] # "idle" => sid'[c] = sid[c]

C1_SubmitIds == [](C1_DistinctIds) /\ [][C1_OrderStep]_vars

\* on an open pool every call has returned, the last one with the largest id
C1_Witness ==
  /\ ~exShutdown
  /\ \A c \in Calls : spc[c] = "returned"
  /\ sid[NumCalls] = NumCalls - 1

\* C2 (as claimed): once wait_for_thread has returned True for a task whose
\* callable raises, the record is in state ERROR with the error stored.
C2_AwaitTrueMeansFailed ==
  (apc = "ret_true" /\ threads[aid].task.kind = "fail")
    => (threads[aid].state = "ERROR" /\ threads[aid].error # None)

\* the record a submit_task call created
InfoOf(c) == threads[sid[c]]

\* the terminal state of the record of call c agrees with its callable
Settled(c) ==
  IF stask[c].kind = "ok"
    THEN /\ InfoOf(c).state = "TERMINATED"
         /\ InfoOf(c).result = Some(stask[c].arg)
    ELSE /\ InfoOf(c).state = "ERROR"
         /\ InfoOf(c).error = Some("exc")

\* C3: once shutdown(wait=True) has returned, the record of every submit_task
\* call that has returned (so of every call that returned before shutdown was
\* called) is TERMINATED with the callable's return value as result, or ERROR
\* with the error stored; none is IDLE or RUNNING.
C3_ShutdownWaitSettles ==
  (hpc = "done" /\ hwait) => \A c \in ReturnedCalls : Settled(c)

\* shutdown(wait=True) has returned with more tasks submitted than workers,
\* one that returned and one that raised
C3_Witness ==
  /\ hpc = "done" /\ hwait
  /\ Cardinality(ReturnedCalls) > NumWorkers
  /\ \E c, d \in ReturnedCalls :
       InfoOf(c).state = "TERMINATED" /\ InfoOf(d).state = "ERROR"

\* C4: a submit_task call made after shutdown has returned never gets past
\* self._executor.submit (it ends in RuntimeError, never in a returned id), and
\* its callable is not queued and never invoked.
C4_SubmitAfterShutdownFails ==
  \A c \in Calls :
    afterShut[c] =>
      /\ spc[c] \in {"store", "exec", "raised"}
      /\ spc[c] \in {"exec", "raised"} =>
           /\ sid[c] \notin executed
           /\ \A k \in 1..Len(workQueue) : workQueue[k] # sid[c]
           /\ InfoOf(c).state = "IDLE"

\* a call made after shutdown(wait=False) returned has ended in RuntimeError
C4_Witness ==
  \E c \in Calls : afterShut[c] /\ spc[c] = "raised" /\ ~hwait

\* ---------------------------------------------------- claims on the barrier

\* wait calls that have left the critical section of their decrement
BArrived == bCalls - Cardinality({t \in BThreads : bpc[t] \in {"lock", "decrement"}})

\* thread t's wait call has returned
BReturned(t) == bpc[t] = "idle" /\ bret[t] # None

\* thread t is held in self._event.wait
BBlocked(t) == bpc[t] = "wait" /\ ~bEvent

\* thread t's call is one of the first bParties calls
FirstRound(t) == bno[t] \in 1..bParties

\* C5: in the first round no wait call has returned True while fewer than
\* parties calls have been made; once parties calls have decremented the count
\* and the last of them has set the event, no call is held any more; and a
\* first-round call returns False only if it was given a timeout.
C5_FirstRound ==
  /\ \A t \in BThreads :
       (FirstRound(t) /\ bret[t] = Some(TRUE)) => bCalls >= bParties
  /\ (BArrived >= bParties /\ \A t \in BThreads : bpc[t] # "set")
       => \A t \in BThreads : ~BBlocked(t)
  /\ \A t \in BThreads :
       (FirstRound(t) /\ BReturned(t) /\ ~bto[t]) => bret[t] = Some(TRUE)

\* a barrier of at least 2 parties whose first-round calls all returned True
C5_Witness ==
  /\ bParties >= 2
  /\ Cardinality({t \in BThreads : FirstRound(t) /\ BReturned(t)
                                     /\ bret[t] = Some(TRUE)}) = bParties

\* C6 (as claimed): when the second round starts after the first has fully
\* completed, no call of the second round has returned True while fewer than
\* parties calls of the second round have been made.
C6_SecondRoundWaits ==
  bClean =>
    \A t \in BThreads :
      (bno[t] \in (bParties + 1)..(2 * bParties) /\ bret[t] = Some(TRUE))
        => bCalls >= 2 * bParties

\* ------------------------------------------------------ claims on the latch

\* C7: for a latch of count K >= 1, the event is set exactly when K count_down
\* calls have completed, wait_for_zero has returned True only then, and every
\* count_down after the K-th leaves the count at 0 and the event set.
C7_LatchOpensAtK ==
  lInit >= 1 =>
    /\ lEvent <=> (lDone >= lInit)
    /\ lCount \in 0..lInit
    /\ lDone >= lInit => lCount = 0
    /\ \A t \in LThreads : lret[t] = Some(TRUE) => lDone >= lInit

\* more count_down calls than the count have completed and a waiter got True
C7_Witness ==
  /\ lInit >= 2
  /\ lDone > lInit
  /\ \E t \in LThreads : lret[t] = Some(TRUE)

\* C8 (as claimed): whenever the count is 0 (and no count_down is inside its
\* critical section) no wait_for_zero call without timeout is held.
C8_ZeroNeverBlocks ==
  (lCount = 0 /\ lLock = {})
    => \A t \in LThreads : ~(lpc[t] = "wait" /\ ~lto[t] /\ ~lEvent)

\* -------------------------------------------------- claims on the semaphore

\* thread t has found no permit and is polling
SBlocked(t) == mpc[t] \in {"loop", "test2"}

\* thread t has been granted a permit by its current or last operation
SGranted(t) ==
  \/ mpc[t] \in {"dec1", "dec2", "inside"}
  \/ mret[t] \in {"True", "exited", "raised"}

\* C9: while no release has completed, the _acquire calls that returned True
\* are sInit - sValue in number with sValue >= 0, and they are exactly sInit as
\* soon as some call is polling or has timed out; a call that found no permit
\* is granted one only after a release completed later than that.
C9_ExactlyVAcquire ==
  /\ nRel = 0 =>
       /\ sValue >= 0
       /\ nTrue = sInit - sValue
       /\ \A t \in SThreads :
            (SBlocked(t) \/ mret[t] \in {"False", "TimeoutError"})
              => (nTrue = sInit /\ sValue = 0)
  /\ \A t \in SThreads :
       (mBlockRel[t] # None /\ SGranted(t)) => nRel > mBlockRel[t][1]

\* all permits of a semaphore are taken, no release was made, and a further
\* _acquire call is polling
C9_Witness ==
  /\ nRel = 0
  /\ sInit >= 1
  /\ nTrue = sInit
  /\ \E t \in SThreads : mpc[t] = "loop" /\ mop[t] = "acquire"

\* the threads inside the body of `with semaphore.acquire():`
Inside == {t \in SThreads : mpc[t] = "inside"}

\* C10: while the semaphore is used through the scoped form only, at most
\* sInit threads are inside a scoped section.
C10_ScopedBound ==
  ~rawUsed => Cardinality(Inside) <= sInit

\* scoped use only: every permit is held by a thread inside its section and a
\* competitor is polling
C10_Witness ==
  /\ ~rawUsed
  /\ sInit >= 1
  /\ Cardinality(Inside) = sInit
  /\ \E t \in SThreads : mpc[t] = "loop"

\* the threads that hold a permit taken by the scoped form and not yet given
\* back: in the body, or in the release of the finally clause
Holding == {t \in SThreads : mpc[t] \in {"inside", "r_lock", "r_body"}}

\* C11: while the semaphore is used through the scoped form only, the releases
\* completed are exactly the successful acquisitions whose section has been
\* left and released (a timed-out scoped acquire raises TimeoutError and
\* releases nothing; a section releases once whether its body returns or
\* raises), so sValue = sInit less the permits still held, and sValue = sInit
\* once every thread is out of the scoped form.
C11_ScopedReleasesOnce ==
  ~rawUsed =>
    /\ nRel + Cardinality(Holding) = nTrue
    /\ sValue = sInit - Cardinality(Holding)
    /\ (\A t \in SThreads : mpc[t] = "idle") => sValue = sInit
    /\ \A t \in SThreads : mret[t] = "TimeoutError" => mpc[t] = "idle"

\* scoped use only, everything has ended: one section was left by an exception
\* and released, one scoped acquire timed out
C11_Witness ==
  /\ ~rawUsed
  /\ \A t \in SThreads : mpc[t] = "idle"
  /\ \E t \in SThreads : mret[t] = "raised"
  /\ \E t \in SThreads : mret[t] = "TimeoutError"
  /\ nRel >= 1
  /\ sValue = sInit

\* ------------------------------------------- further claims on the pool

\* the call has returned and its record is in the final state of its callable
HasSettled(c) == spc[c] = "returned" /\ Settled(c)

\* C12, own record: an exception of a callable is stored on the record of that
\* callable (ERROR, with the error), only records of failing callables are
\* ERROR, and while shutdown has not been called the executor accepts work.
C12_OwnRecord ==
  /\ \A i \in DOMAIN threads :
       /\ futures[i].exception # None =>
            (threads[i].state = "ERROR" /\ threads[i].error = Some("exc"))
       /\ threads[i].state = "ERROR" => threads[i].task.kind = "fail"
  /\ hpc = "idle" => (running /\ ~ExecutorRejects(exShutdown))

\* C12, frame: a step that changes the record of a failing callable changes
\* no other record.
C12_FrameStep ==
  \A i \in DOMAIN threads :
    (threads[i].task.kind = "fail" /\ threads'[i] # threads[i]) =>
      \A j \in (DOMAIN threads) \ {i} : threads'[j] = threads[j]

\* C12: a failure is recorded on its own record and nowhere else, the pool
\* stays open, and every task whose submit_task call returned reaches the
\* final state of its own callable.
C12_FailureIsLocal ==
  /\ [](C12_OwnRecord)
  /\ [][C12_FrameStep]_vars
  /\ \A c \in Calls : (spc[c] = "returned") ~> HasSettled(c)

\* shutdown was not called; a failing task is ERROR and a task submitted
\* after it has terminated with its result
C12_Witness ==
  /\ hpc = "idle"
  /\ \E c, d \in ReturnedCalls :
       /\ c < d
       /\ stask[c].kind = "fail" /\ Settled(c)
       /\ stask[d].kind = "ok" /\ Settled(d)

\* a wait=False shutdown has been called
ShutdownNoWait == hpc # "idle" /\ ~hwait

LifeCycle ==
  {<<"IDLE", "RUNNING">>, <<"RUNNING", "TERMINATED">>, <<"RUNNING", "ERROR">>}

\* C14, one step: no record disappears, a new record is IDLE, and a record
\* whose state changes moves along the life cycle (so TERMINATED and ERROR are
\* never left).
C14_Step ==
  /\ DOMAIN threads \subseteq DOMAIN threads'
  /\ \A i \in DOMAIN threads' :
       IF i \in DOMAIN threads
         THEN \/ threads'[i].state = threads[i].state
              \/ <<threads[i].state, threads'[i].state>> \in LifeCycle
         ELSE threads'[i].state = "IDLE"

\* C14: every step of the pool respects the life cycle of every record.
C14_LifeCycle == [][C14_Step]_vars

\* every call has returned, nothing is left to do, one record has gone all the
\* way to TERMINATED and another all the way to ERROR
C14_Witness ==
  /\ \A c \in Calls : spc[c] = "returned"
  /\ workQueue = << >> /\ Busy = {}
  /\ \E i, j \in DOMAIN threads :
       /\ threads[i].state = "TERMINATED" /\ futures[i].cb
       /\ threads[j].state = "ERROR" /\ futures[j].state = "FINISHED"

\* C15, one step: a step that changes the registry (adds a record or writes a
\* field of one) is the step of a thread that holds self._lock.
C15_Step ==
  threads' # threads =>
    \E c \in lock : spc[c] = "store" /\ spc'[c] # spc[c]

\* C15: the registry changes only under the lock, and the lock is held only
\* by a submit_task call in its critical section, which neither runs a
\* callable nor blocks.
C15_MutationsUnderLock ==
  /\ [][C15_Step]_vars
  /\ [](\A c \in lock : spc[c] = "store")

\* C16: what get_thread_info can return at any moment: a record has a result
\* only in state TERMINATED and an error only in state ERROR.
C16_FieldsOnlyWhenFinal ==
  \A i \in DOMAIN threads :
    /\ threads[i].result # None => threads[i].state = "TERMINATED"
    /\ threads[i].error # None => threads[i].state = "ERROR"

\* C17: a TERMINATED record has a result and no error, an ERROR record has an
\* error and no result.
C17_ExactlyOneStored ==
  \A i \in DOMAIN threads :
    /\ threads[i].state = "TERMINATED" =>
         (threads[i].result # None /\ threads[i].error = None)
    /\ threads[i].state = "ERROR" =>
         (threads[i].error # None /\ threads[i].result = None)

\* one record is TERMINATED; another was set to ERROR by its worker, whose
\* callback has not run yet
C17_Witness ==
  \E i, j \in DOMAIN threads :
    /\ threads[i].state = "TERMINATED"
    /\ threads[j].state = "ERROR" /\ wpc[j] = "set_exception"

\* -------------------------------------------- further claims on the barrier

\* C18, states: outside the critical section _count is in 1..parties; it is 0
\* only while the call that brought it there is still in its critical section,
\* about to reset it; with one party no call ever waits or returns False.
C18_CountInRange ==
  /\ bLock = {} => bCount \in 1..bParties
  /\ bCount \in 0..bParties
  /\ bCount = 0 => \E t \in bLock : bpc[t] \in {"set", "reset"}
  /\ bParties = 1 =>
       \A t \in BThreads : bpc[t] # "wait" /\ bret[t] # Some(FALSE)

\* C18, steps: _count grows only by the reset from 0 to parties, made by the
\* call whose decrement reached 0, before it leaves the lock.
C18_ResetStep ==
  bCount' > bCount =>
    /\ bCount = 0 /\ bCount' = bParties
    /\ \E t \in bLock : bpc[t] = "reset" /\ bpc'[t] = "idle"

\* C18: the count stays in range whatever calls are made and time out, and is
\* reset exactly when a round completes.
C18_BarrierCount == [](C18_CountInRange) /\ [][C18_ResetStep]_vars

\* two parties: a call has timed out with False, a later call completed the
\* round and the count is back at parties
C18_Witness ==
  /\ bParties = 2
  /\ \E t \in BThreads : bret[t] = Some(FALSE)
  /\ bEvent
  /\ bLock = {}
  /\ bCount = bParties

\* ------------------------------------------ further claims on the semaphore

\* C19: _value is the initial value less the _acquire calls that returned True
\* plus the release calls completed, and is never negative.
C19_PermitAccounting ==
  /\ sValue = sInit - nTrue + nRel
  /\ sValue >= 0

\* more releases than successful acquisitions have completed: _value is above
\* the initial value
C19_Witness ==
  /\ nTrue >= 1
  /\ nRel > nTrue
  /\ sValue > sInit

\* thread t is polling in _acquire and was given a timeout (0 included)
PollingWithTimeout(t) == mpc[t] = "loop" /\ mto[t] \in {"zero", "positive"}

\* C20: if no release ever completes, an _acquire given a timeout that finds
\* no permit returns False (TimeoutError in the scoped form) with _value
\* still 0.
C20_FiniteTimeoutReturns ==
  \A t \in SThreads :
    [](nRel = 0) =>
      (PollingWithTimeout(t) ~>
         (mpc[t] = "idle" /\ mret[t] \in {"False", "TimeoutError"}
            /\ sValue = 0))

\* thread t found no permit, was given no timeout and is polling
BlockedNoTimeout(t) == SBlocked(t) /\ mto[t] = "none"

\* the current operation of thread t has been granted its permit
GotPermit(t) == mpc[t] = "inside" \/ (mpc[t] = "idle" /\ mret[t] = "True")

\* no thread other than t is taking a permit
OnlyTakes(t) == \A u \in SThreads \ {t} : mpc[u] \notin {"dec1", "dec2"}

\* C21: once a permit is there (a release has completed) while some call
\* without timeout is polling, a further _acquire returns True; and if no
\* other thread ever takes a permit, the polling call itself is granted it.
C21_ReleaseWakes ==
  /\ \A n \in 0..MaxSemOps :
       ((\E t \in SThreads : BlockedNoTimeout(t)) /\ sValue > 0 /\ nTrue = n)
         ~> (nTrue > n)
  /\ \A t \in SThreads :
       [](OnlyTakes(t)) => ((BlockedNoTimeout(t) /\ sValue > 0) ~> GotPermit(t))

\* a scoped acquire without timeout found no permit, polled, and is inside
\* its section thanks to a release completed after that
C21_Witness ==
  \E t \in SThreads :
    /\ mpc[t] = "inside" /\ mto[t] = "none"
    /\ mBlockRel[t] # None
    /\ nRel > mBlockRel[t][1]

\* ------------------------------------------------ last claims on the pool

\* the records in state RUNNING
RunningRecords == {i \in DOMAIN threads : threads[i].state = "RUNNING"}

\* C22: at most max_workers records are RUNNING, and a record is IDLE as long
\* as its work item waits in the queue.
C22_RunningAtMostWorkers ==
  /\ Cardinality(RunningRecords) <= NumWorkers
  /\ \A k \in 1..Len(workQueue) : threads[workQueue[k]].state = "IDLE"

\* the records made by submit_task call c (its task carries c as argument)
RecordsOf(c) == {i \in DOMAIN threads : threads[i].task.arg = c}

\* C23: a submit_task call that raised because the executor is shut down has
\* left no record in the registry, and every record whose call is over has
\* been handed to the executor.
C23_FailedSubmitLeavesNothing ==
  \A c \in Calls :
    /\ spc[c] = "raised" => RecordsOf(c) = {}
    /\ spc[c] \in {"raised", "returned"} =>
         \A i \in RecordsOf(c) : futures[i].state # "NONE"

====
